---- MODULE Spec2Model ----
(***************************************************************************)
(* A model of the notebook openi_demo/openi_demo.ipynb: the three demo     *)
(* labeling functions over text reports, create_label_matrix with its      *)
(* dask fan-out/fan-in over evaluate_lf_on_docs, and the sequential run of *)
(* the notebook's cells from the CSV load to the two trained image models. *)
(*                                                                         *)
(* A text is a sequence of one-character strings.  A cell of the CSV text  *)
(* column that pandas reads as missing is the float NaN.                   *)
(***************************************************************************)
EXTENDS Integers, Sequences, FiniteSets, TLC

\* ------------------------------------------------------------------ bounds
\* Fragments a report of the LF specification is assembled from.
MaxFrags == 3
\* How far around the length threshold the padded reports reach.
PadSlack == 2
\* Labeling functions and documents of a stand-alone create_label_matrix call.
MaxLFs == 2
MaxDocs == 2
\* Rows of a split's CSV file.
MaxRows == 1

\* ------------------------------------------------------------- characters
UpperAscii == <<"A","B","C","D","E","F","G","H","I","J","K","L","M",
                "N","O","P","Q","R","S","T","U","V","W","X","Y","Z">>
LowerAscii == <<"a","b","c","d","e","f","g","h","i","j","k","l","m",
                "n","o","p","q","r","s","t","u","v","w","x","y","z">>

\* Three code points whose case mappings are not one-to-one with ASCII.
LongS == "U+017F"
DotlessI == "U+0131"
DottedCapI == "U+0130"
CombiningDot == "U+0307"

IsUpperAscii(c) == \E k \in 1..26 : UpperAscii[k] = c

AsciiLower(c) == LowerAscii[CHOOSE k \in 1..26 : UpperAscii[k] = c]

\* str.lower() of one character: a string, since U+0130 lowers to two.
LowerChar(c) ==
    IF IsUpperAscii(c) THEN <<AsciiLower(c)>>
    ELSE IF c = DottedCapI THEN <<"i", CombiningDot>>
    ELSE <<c>>

\* str.lower(): the characters lowered one by one, in order.
RECURSIVE lower(_)
lower(s) ==
    IF s = <<>> THEN <<>>
    ELSE IF Len(s) = 1 THEN LowerChar(s[1])
    ELSE LET h == Len(s) \div 2
         IN lower(SubSeq(s, 1, h)) \o lower(SubSeq(s, h + 1, Len(s)))

\* The one-to-one lowercase the regex engine applies to a subject character.
ReLower(c) ==
    IF IsUpperAscii(c) THEN AsciiLower(c)
    ELSE IF c = DottedCapI THEN "i"
    ELSE c

\* The characters an IGNORECASE literal accepts after ReLower.
ReEquiv(p) ==
    IF p = "s" THEN {"s", LongS}
    ELSE IF p = "i" THEN {"i", DotlessI}
    ELSE {p}

\* `needle in hay` of two strings.
Contains(hay, needle) ==
    \E i \in 0..(Len(hay) - Len(needle)) :
        SubSeq(hay, i + 1, i + Len(needle)) = needle

\* A literal pattern matches the subject at offset i, ignoring case.
MatchAtIgnoreCase(pat, subject, i) ==
    /\ i + Len(pat) <= Len(subject)
    /\ \A k \in 1..Len(pat) : ReLower(subject[i + k]) \in ReEquiv(pat[k])

\* re.compile("a|b|c", re.IGNORECASE).search(subject) is not None.
SearchIgnoreCase(alternatives, subject) ==
    \E a \in 1..Len(alternatives) :
        \E i \in 0..Len(subject) :
            MatchAtIgnoreCase(alternatives[a], subject, i)

\* str.split(sep) with a one-character separator: the pieces between the
\* occurrences of sep, empty pieces included.
split(s, sep) ==
    LET P == {k \in 1..Len(s) : s[k] = sep}
        n == Cardinality(P)
        pos(j) == IF j = 0 THEN 0
                  ELSE IF j = n + 1 THEN Len(s) + 1
                  ELSE CHOOSE p \in P : Cardinality({q \in P : q < p}) = j - 1
    IN [j \in 1..(n + 1) |-> SubSeq(s, pos(j - 1) + 1, pos(j) - 1)]

\* -------------------------------------------------------------- the votes
ABSTAIN == 0
ABNORMAL == 1
NORMAL == 2

ShortLen == 280

NaN == <<"float:nan">>
IsStr(doc) == doc # NaN

is_seen == <<"i","s"," ","s","e","e","n">>
noted == <<"n","o","t","e","d">>
increased_volume ==
    <<"i","n","c","r","e","a","s","e","d"," ","v","o","l","u","m","e">>
hyperexpan == <<"h","y","p","e","r","e","x","p","a","n">>
inflated == <<"i","n","f","l","a","t","e","d">>

reg_01 == <<increased_volume, hyperexpan, inflated>>

\* The function without the call of lower().
LF_is_seen_or_noted_case_sensitive(report) ==
    IF \E word \in {is_seen, noted} : Contains(report, word)
    THEN ABNORMAL
    ELSE ABSTAIN

LF_is_seen_or_noted_in_report_demo(report) ==
    IF \E word \in {is_seen, noted} : Contains(lower(report), word)
    THEN ABNORMAL
    ELSE ABSTAIN

\* The function with its last line returning ABSTAIN.
LF_lung_hyperdistention_abstaining(report) ==
    LET sentences == split(report, ".") IN
    IF \E k \in 1..Len(sentences) : SearchIgnoreCase(reg_01, sentences[k])
    THEN ABNORMAL
    ELSE ABSTAIN

\* The function splitting the report at spaces instead of periods.
LF_lung_hyperdistention_split_on_space(report) ==
    LET sentences == split(report, " ") IN
    IF \E k \in 1..Len(sentences) : SearchIgnoreCase(reg_01, sentences[k])
    THEN ABNORMAL
    ELSE NORMAL

LF_lung_hyperdistention_demo(report) ==
    LET sentences == split(report, ".") IN
    IF \E k \in 1..Len(sentences) : SearchIgnoreCase(reg_01, sentences[k])
    THEN ABNORMAL
    ELSE NORMAL

\* The comparison taken as <= instead of <.
LF_report_is_short_inclusive(report) ==
    IF Len(report) <= ShortLen THEN NORMAL ELSE ABSTAIN

LF_report_is_short_demo(report) ==
    IF Len(report) < ShortLen THEN NORMAL ELSE ABSTAIN

\* The outcome of calling a function: a value, or an exception.
Returned(v) == [exc |-> "none", v |-> v]
Raised(e) == [exc |-> e, v |-> -1]
NoVote == [exc |-> "unset", v |-> -1]

LFNames == {"LF_is_seen_or_noted_in_report_demo",
            "LF_lung_hyperdistention_demo",
            "LF_report_is_short_demo"}

\* lf(doc) where abstaining is written -1, as in later Snorkel versions.
ApplyLFMinusOne(lf, doc) ==
    IF ~IsStr(doc) THEN Raised("AttributeError")
    ELSE IF lf = "LF_is_seen_or_noted_in_report_demo" THEN
        Returned(IF LF_is_seen_or_noted_in_report_demo(doc) = ABSTAIN
                 THEN -1 ELSE ABNORMAL)
    ELSE IF lf = "LF_lung_hyperdistention_demo" THEN
        Returned(LF_lung_hyperdistention_demo(doc))
    ELSE
        Returned(IF LF_report_is_short_demo(doc) = ABSTAIN THEN -1 ELSE NORMAL)

\* lf(doc) for a labeling function given by name.  On a float the string
\* methods lower and split do not exist and len is not defined.
ApplyLF(lf, doc) ==
    IF lf = "LF_is_seen_or_noted_in_report_demo" THEN
        IF IsStr(doc) THEN Returned(LF_is_seen_or_noted_in_report_demo(doc))
        ELSE Raised("AttributeError")
    ELSE IF lf = "LF_lung_hyperdistention_demo" THEN
        IF IsStr(doc) THEN Returned(LF_lung_hyperdistention_demo(doc))
        ELSE Raised("AttributeError")
    ELSE
        IF IsStr(doc) THEN Returned(LF_report_is_short_demo(doc))
        ELSE Raised("TypeError")

\* ------------------------------------------------------------ the matrices
\* np.vstack of m lists of n numbers: an m-by-n array.
vstack(rows) ==
    [shape |-> <<Len(rows), IF Len(rows) = 0 THEN 0 ELSE Len(rows[1])>>,
     a |-> rows]

\* ndarray.transpose() of a two-dimensional array.
transpose(M) ==
    [shape |-> <<M.shape[2], M.shape[1]>>,
     a |-> [i \in 1..M.shape[2] |-> [j \in 1..M.shape[1] |-> M.a[j][i]]]]

\* scipy's csr_matrix of a dense array: the shape and the non-zero entries.
csr_matrix(M) ==
    [shape |-> M.shape,
     nz |-> {<<i, j, M.a[i][j]>> : i \in 1..M.shape[1], j \in 1..M.shape[2]}
            \ {<<i, j, 0>> : i \in 1..M.shape[1], j \in 1..M.shape[2]}]

\* L[i, j] of a sparse matrix: a position that is not stored reads as 0.
Entry(S, i, j) ==
    IF \E e \in S.nz : e[1] = i /\ e[2] = j
    THEN (CHOOSE e \in S.nz : e[1] = i /\ e[2] = j)[3]
    ELSE 0

\* The matrix built without the transposition.
LabelMatrixUntransposed(results) == csr_matrix(vstack(results))

\* csr_matrix(np.vstack(results).transpose())
LabelMatrix(results) == csr_matrix(transpose(vstack(results)))

\* ---------------------------------------------------------------- the data
splits == <<"train", "dev", "test">>
SplitNames == {"train", "dev", "test"}

\* The documents of a stand-alone call, and the texts of a CSV row: a
\* missing text is read as NaN.
DocPool == {is_seen, <<"I","n","f","l","a","t","e","d",".">>, NaN}
CsvTexts == {<<"I","n","f","l","a","t","e","d",".">>, NaN}

\* The files data/<split>_entries.csv may be: up to MaxRows rows, a raw label
\* of 0 or 1, the row's own image path.
RowsOf(s, n) ==
    {[r \in 1..n |-> [label |-> lab[r], xray_paths |-> <<s, r>>, text |-> txt[r]]] :
        lab \in [1..n -> {0, 1}], txt \in [1..n -> CsvTexts]}

CsvFiles(s) == UNION {RowsOf(s, n) : n \in 0..MaxRows}

Column(rows, c) == [r \in 1..Len(rows) |-> rows[r][c]]

\* The chained assignment writing to a copy: the labels stay as read.
RelabelOnCopy(rows) == rows

\* data[split]['label'][data[split]['label']==0] = 2
Relabel(rows) ==
    [r \in 1..Len(rows) |->
        IF rows[r].label = 0 THEN [rows[r] EXCEPT !.label = 2] ELSE rows[r]]

\* The list lfs of the notebook.  The bodies of its functions are in
\* labeling_functions.py; the three functions the notebook defines stand
\* for them.
NotebookLFs == <<"LF_is_seen_or_noted_in_report_demo",
                 "LF_lung_hyperdistention_demo",
                 "LF_report_is_short_demo">>

\* -------------------------------------------------------- library results
\* What the external models are given: a call is recorded with its arguments.
LabelModelSearch(dev_L, dev_Y, train_L) ==
    [model |-> "LabelModel", dev_L |-> dev_L, dev_Y |-> dev_Y,
     train_L |-> train_L]

predict_proba(g, L_) == [call |-> "predict_proba", gm |-> g, L |-> L_]

get_data_loader(paths, labels, shuffle) ==
    [paths |-> paths, labels |-> labels, shuffle |-> shuffle]

EndModelSearch(dev_loader, train_loader) ==
    [model |-> "EndModel", dev |-> dev_loader, train |-> train_loader]

NoLoaders == [train |-> <<>>, dev |-> <<>>, test |-> <<>>, full_train |-> <<>>]
NoErr == [exc |-> "none", at |-> "none", task |-> 0, doc |-> 0]
Error(e, at, t, d) == [exc |-> e, at |-> at, task |-> t, doc |-> d]

\* ---------------------------------------------------------------- the state
VARIABLES
    report,     \* the report under test
    nfrags,     \* how many pieces it was assembled from
    lf_test,    \* the labeling function under test
    vote,       \* what lf_test(report) gave
    ctx,        \* "lf", "call" (a call of create_label_matrix) or "notebook"
    pc,         \* where the main thread is
    lfs,        \* the list of labeling functions
    docs,       \* the document list of the current create_label_matrix call
    tasks,      \* delayed_lf_rows: one evaluate_lf_on_docs task per LF
    queue,      \* the scheduler's result queue: tasks in the order they ended
    calls,      \* calls[j][i]: how often lfs[j] was applied to docs[i]
    L,          \* what create_label_matrix returned, if it did
    err,        \* the exception that ended the run, if any
    csv,        \* the content of data/<split>_entries.csv
    reads,      \* how often each file was read
    data,       \* data[split]
    si,         \* the position of the running loop over the splits
    Y_lf,
    Y_dev,
    Ls,
    Ys,
    gm,
    Y_ps,
    loaders,
    weakly_supervised_model,
    fully_supervised_model

lfVars == <<report, nfrags, lf_test, vote>>
callVars == <<lfs, docs, tasks, queue, calls, L>>
nbVars == <<csv, reads, data, si, Y_lf, Y_dev, Ls, Ys, gm, Y_ps, loaders,
            weakly_supervised_model, fully_supervised_model>>
vars == <<lfVars, ctx, pc, err, callVars, nbVars>>

NoLfState ==
    /\ report = <<>>
    /\ nfrags = 0
    /\ lf_test = "none"
    /\ vote = NoVote

NoCallState ==
    /\ tasks = <<>>
    /\ queue = <<>>
    /\ calls = <<>>
    /\ L = <<>>
    /\ err = NoErr

NoNotebookState ==
    /\ reads = [s \in SplitNames |-> 0]
    /\ data = [s \in SplitNames |-> <<>>]
    /\ si = 1
    /\ Y_lf = <<>>
    /\ Y_dev = <<>>
    /\ Ls = <<>>
    /\ Ys = <<>>
    /\ gm = <<>>
    /\ Y_ps = <<>>
    /\ loaders = NoLoaders
    /\ weakly_supervised_model = <<>>
    /\ fully_supervised_model = <<>>

\* ------------------------------------------- testing one labeling function
\* The pieces a report under test is assembled from.
Fragments ==
    {is_seen, <<"N","o","T","e","D">>, inflated,
     <<"H","Y","P","E","R","E","X","P","A","N">>,
     <<"i","n","f","l">>, <<"a","t","e","d">>, <<".">>,
     <<"i","n","c","r","e","a",LongS,"e","d"," ","v","o","l","u","m","e">>,
     <<DottedCapI,"s"," ","s","e","e","n">>,
     <<DotlessI,"n","f","l","a","t","e","d">>}

Filler(n) == [k \in 1..n |-> "x"]

InitLF ==
    /\ ctx = "lf"
    /\ pc = "lf"
    /\ NoLfState
    /\ lfs = <<>>
    /\ docs = <<>>
    /\ NoCallState
    /\ csv = [s \in SplitNames |-> <<>>]
    /\ NoNotebookState

\* One more piece at the end of the report.
AddFragment(f) ==
    /\ ctx = "lf"
    /\ vote = NoVote
    /\ nfrags < MaxFrags
    /\ report' = report \o f
    /\ nfrags' = nfrags + 1
    /\ UNCHANGED <<lf_test, vote, ctx, pc, err, callVars, nbVars>>

\* The report filled up to a length of n characters, which completes it.
PadReport(n) ==
    /\ ctx = "lf"
    /\ vote = NoVote
    /\ nfrags < MaxFrags
    /\ Len(report) < n
    /\ report' = report \o Filler(n - Len(report))
    /\ nfrags' = MaxFrags
    /\ UNCHANGED <<lf_test, vote, ctx, pc, err, callVars, nbVars>>

\* lf_test(report)
TestLF(lf) ==
    /\ ctx = "lf"
    /\ vote = NoVote
    /\ lf_test' = lf
    /\ vote' = ApplyLF(lf, report)
    /\ UNCHANGED <<report, nfrags, ctx, pc, err, callVars, nbVars>>

NextLF ==
    \/ \E f \in Fragments : AddFragment(f)
    \/ \E n \in (ShortLen - PadSlack)..(ShortLen + PadSlack) : PadReport(n)
    \/ \E lf \in LFNames : TestLF(lf)

SpecLF == InitLF /\ [][NextLF]_vars

\* ------------------------------------------------------ create_label_matrix
SeqsUpTo(S, n) == UNION {[1..k -> S] : k \in 0..n}

NewTask(lf) == [lf |-> lf, status |-> "pending", i |-> 0, lf_list |-> <<>>,
                exc |-> "none"]

\* The loop over lfs: one delayed evaluate_lf_on_docs(docs, lf) per LF, then
\* dask.compute is entered.
CreateDelayed(the_lfs, the_docs) ==
    /\ lfs' = the_lfs
    /\ docs' = the_docs
    /\ tasks' = [j \in 1..Len(the_lfs) |-> NewTask(the_lfs[j])]
    /\ queue' = <<>>
    /\ calls' = [j \in 1..Len(the_lfs) |-> [i \in 1..Len(the_docs) |-> 0]]
    /\ L' = <<>>
    /\ pc' = "compute"

InitCall ==
    /\ ctx = "call"
    /\ pc = "call"
    /\ NoLfState
    /\ lfs \in SeqsUpTo(LFNames, MaxLFs)
    /\ docs \in SeqsUpTo(DocPool, MaxDocs)
    /\ NoCallState
    /\ csv = [s \in SplitNames |-> <<>>]
    /\ NoNotebookState

\* create_label_matrix(lfs, docs), called on its own.
Call ==
    /\ ctx = "call"
    /\ pc = "call"
    /\ CreateDelayed(lfs, docs)
    /\ UNCHANGED <<lfVars, ctx, err, nbVars>>

\* The scheduler hands a task to a worker thread.
StartTask(t) ==
    /\ pc = "compute"
    /\ tasks[t].status = "pending"
    /\ tasks' = [tasks EXCEPT ![t].status = "running"]
    /\ UNCHANGED <<lfVars, ctx, pc, err, lfs, docs, queue, calls, L, nbVars>>

\* The loop with one result list shared by all tasks (the first task's).
TaskStepSharedList(t) ==
    /\ tasks[t].status = "running"
    /\ tasks[t].i < Len(docs)
    /\ LET i == tasks[t].i + 1
           r == ApplyLF(tasks[t].lf, docs[i])
       IN /\ calls' = [calls EXCEPT ![t][i] = @ + 1]
          /\ IF r.exc = "none"
             THEN /\ tasks' = [[tasks EXCEPT ![t].i = i]
                                  EXCEPT ![1].lf_list = Append(@, r.v)]
                  /\ UNCHANGED queue
             ELSE /\ tasks' = [tasks EXCEPT ![t].i = i,
                                            ![t].status = "failed",
                                            ![t].exc = r.exc]
                  /\ queue' = Append(queue, t)
    /\ UNCHANGED <<lfVars, ctx, pc, err, lfs, docs, L, nbVars>>

\* One turn of the loop of evaluate_lf_on_docs: lf_list.append(lf(doc)), or
\* the exception of lf(doc) ends the task.
TaskStep(t) ==
    /\ tasks[t].status = "running"
    /\ tasks[t].i < Len(docs)
    /\ LET i == tasks[t].i + 1
           r == ApplyLF(tasks[t].lf, docs[i])
       IN /\ calls' = [calls EXCEPT ![t][i] = @ + 1]
          /\ IF r.exc = "none"
             THEN /\ tasks' = [tasks EXCEPT ![t].i = i,
                                            ![t].lf_list = Append(@, r.v)]
                  /\ UNCHANGED queue
             ELSE /\ tasks' = [tasks EXCEPT ![t].i = i,
                                            ![t].status = "failed",
                                            ![t].exc = r.exc]
                  /\ queue' = Append(queue, t)
    /\ UNCHANGED <<lfVars, ctx, pc, err, lfs, docs, L, nbVars>>

\* return lf_list
TaskReturn(t) ==
    /\ tasks[t].status = "running"
    /\ tasks[t].i = Len(docs)
    /\ tasks' = [tasks EXCEPT ![t].status = "done"]
    /\ queue' = Append(queue, t)
    /\ UNCHANGED <<lfVars, ctx, pc, err, lfs, docs, calls, L, nbVars>>

\* The results taken in the order in which the tasks ended.
GatherAsCompleted == [k \in 1..Len(tasks) |-> tasks[queue[k]].lf_list]

\* dask.compute(*delayed_lf_rows): the results in the order of the arguments.
Gather == [j \in 1..Len(tasks) |-> tasks[j].lf_list]

AllDone == \A j \in 1..Len(tasks) : tasks[j].status = "done"

\* The first failed task of the result queue.
FirstFailed ==
    queue[CHOOSE k \in 1..Len(queue) :
            /\ tasks[queue[k]].status = "failed"
            /\ \A h \in 1..(k - 1) : tasks[queue[h]].status # "failed"]

\* A loop over the splits that leaves out the last one.
AfterSplitButLast(here, next) ==
    IF si < Len(splits) - 1
    THEN si' = si + 1 /\ pc' = here
    ELSE si' = 1 /\ pc' = next

\* Where the main thread goes after one turn of a loop over the splits.
AfterSplit(here, next) ==
    IF si < Len(splits)
    THEN si' = si + 1 /\ pc' = here
    ELSE si' = 1 /\ pc' = next

\* The lists of the tasks that have ended well, in the order of the arguments.
RECURSIVE DoneLists(_)
DoneLists(k) ==
    IF k = 0 THEN <<>>
    ELSE IF tasks[k].status = "done"
         THEN Append(DoneLists(k - 1), tasks[k].lf_list)
         ELSE DoneLists(k - 1)

\* The matrix built as soon as one task has ended, from the tasks that have.
ComputeReturnFirstCompleted ==
    /\ pc = "compute"
    /\ \E t \in 1..Len(tasks) : tasks[t].status = "done"
    /\ L' = <<LabelMatrix(DoneLists(Len(tasks)))>>
    /\ IF ctx = "call"
       THEN pc' = "returned" /\ UNCHANGED <<Ls, si>>
       ELSE /\ Ls' = Append(Ls, LabelMatrix(DoneLists(Len(tasks))))
            /\ IF si < Len(splits)
               THEN si' = si + 1 /\ pc' = "label_matrices"
               ELSE si' = 1 /\ pc' = "ground_truth"
    /\ UNCHANGED <<lfVars, ctx, err, lfs, docs, tasks, queue, calls, csv, reads,
                   data, Y_lf, Y_dev, Ys, gm, Y_ps, loaders,
                   weakly_supervised_model, fully_supervised_model>>

\* All tasks have ended well: the matrix is built and returned; in the
\* notebook it is appended to Ls.  np.vstack of no rows raises.
ComputeReturn ==
    /\ pc = "compute"
    /\ AllDone
    /\ IF Len(tasks) = 0
       THEN /\ pc' = "error"
            /\ err' = Error("ValueError", "vstack", 0, 0)
            /\ UNCHANGED <<L, Ls, si>>
       ELSE /\ L' = <<LabelMatrix(Gather)>>
            /\ UNCHANGED err
            /\ IF ctx = "call"
               THEN pc' = "returned" /\ UNCHANGED <<Ls, si>>
               ELSE Ls' = Append(Ls, LabelMatrix(Gather))
                    /\ AfterSplit("label_matrices", "ground_truth")
    /\ UNCHANGED <<lfVars, ctx, lfs, docs, tasks, queue, calls, csv, reads,
                   data, Y_lf, Y_dev, Ys, gm, Y_ps, loaders,
                   weakly_supervised_model, fully_supervised_model>>

\* The exception caught around the call and the split skipped.
ComputeSkipFailed ==
    /\ pc = "compute"
    /\ \E k \in 1..Len(queue) : tasks[queue[k]].status = "failed"
    /\ IF si < Len(splits)
       THEN si' = si + 1 /\ pc' = "label_matrices"
       ELSE si' = 1 /\ pc' = "ground_truth"
    /\ UNCHANGED <<lfVars, ctx, err, callVars, csv, reads, data, Y_lf, Y_dev,
                   Ls, Ys, gm, Y_ps, loaders, weakly_supervised_model,
                   fully_supervised_model>>

\* The main thread takes a failed task from the result queue and raises its
\* exception: nothing is returned and the cell ends.
ComputeRaise ==
    /\ pc = "compute"
    /\ \E k \in 1..Len(queue) : tasks[queue[k]].status = "failed"
    /\ pc' = "error"
    /\ err' = Error(tasks[FirstFailed].exc, "compute", FirstFailed,
                    tasks[FirstFailed].i)
    /\ UNCHANGED <<lfVars, ctx, callVars, nbVars>>

NextCall ==
    \/ Call
    \/ \E t \in 1..Len(tasks) : StartTask(t)
    \/ \E t \in 1..Len(tasks) : TaskStep(t)
    \/ \E t \in 1..Len(tasks) : TaskReturn(t)
    \/ ComputeReturn
    \/ ComputeRaise

SpecCall == InitCall /\ [][NextCall]_vars

\* ------------------------------------------------------------- the notebook
InitNotebook ==
    /\ ctx = "notebook"
    /\ pc = "load"
    /\ NoLfState
    /\ lfs = <<>>
    /\ docs = <<>>
    /\ NoCallState
    /\ csv \in [SplitNames -> UNION {CsvFiles(s) : s \in SplitNames}]
    /\ \A s \in SplitNames : csv[s] \in CsvFiles(s)
    /\ NoNotebookState

\* One turn of the loading loop: the file is read, its columns selected, the
\* labels 0 rewritten to 2 and the share of abnormal rows printed.  The share
\* of an empty table is a division by zero.
Load ==
    /\ pc = "load"
    /\ LET s == splits[si] IN
       /\ reads' = [reads EXCEPT ![s] = @ + 1]
       /\ data' = [data EXCEPT ![s] = Relabel(csv[s])]
       /\ IF Len(csv[s]) = 0
          THEN /\ pc' = "error"
               /\ err' = Error("ZeroDivisionError", "load", 0, 0)
               /\ UNCHANGED si
          ELSE /\ AfterSplit("load", "lf_test")
               /\ UNCHANGED err
    /\ UNCHANGED <<lfVars, ctx, callVars, csv, Y_lf, Y_dev, Ls, Ys, gm, Y_ps,
                   loaders, weakly_supervised_model, fully_supervised_model>>

\* The cell that tests a single LF on the dev split.
TestOnDev ==
    /\ pc = "lf_test"
    /\ lf_test' = "LF_lung_hyperdistention_demo"
    /\ LET texts == Column(data["dev"], "text") IN
       IF \E r \in 1..Len(texts) : ApplyLF(lf_test', texts[r]).exc # "none"
       THEN /\ pc' = "error"
            /\ err' = Error("AttributeError", "lf_test", 0,
                            CHOOSE r \in 1..Len(texts) :
                              /\ ApplyLF(lf_test', texts[r]).exc # "none"
                              /\ \A q \in 1..(r - 1) :
                                    ApplyLF(lf_test', texts[q]).exc = "none")
            /\ UNCHANGED <<Y_lf, Y_dev>>
       ELSE /\ pc' = "define_lfs"
            /\ Y_lf' = [r \in 1..Len(texts) |-> ApplyLF(lf_test', texts[r]).v]
            /\ Y_dev' = Column(data["dev"], "label")
            /\ UNCHANGED err
    /\ UNCHANGED <<report, nfrags, vote, ctx, callVars, csv, reads, data, si,
                   Ls, Ys, gm, Y_ps, loaders, weakly_supervised_model,
                   fully_supervised_model>>

\* The cell that sets the list lfs.
DefineLFs ==
    /\ pc = "define_lfs"
    /\ lfs' = NotebookLFs
    /\ pc' = "label_matrices"
    /\ UNCHANGED <<lfVars, ctx, err, docs, tasks, queue, calls, L, nbVars>>

\* One turn of the loop over the splits' texts enters create_label_matrix.
CallForSplit ==
    /\ pc = "label_matrices"
    /\ CreateDelayed(lfs, Column(data[splits[si]], "text"))
    /\ UNCHANGED <<lfVars, ctx, err, nbVars>>

\* Ys = [the label column of each split]
GroundTruth ==
    /\ pc = "ground_truth"
    /\ Ys' = [k \in 1..Len(splits) |-> Column(data[splits[k]], "label")]
    /\ pc' = "search"
    /\ UNCHANGED <<lfVars, ctx, err, callVars, csv, reads, data, si, Y_lf,
                   Y_dev, Ls, gm, Y_ps, loaders, weakly_supervised_model,
                   fully_supervised_model>>

\* gm = searcher.search(search_space, (Ls[1], Ys[1]), train_args=[Ls[0]], ...)
\* (Python counts from 0: Ls[0] is Ls[1] here.)
SearchLabelModel ==
    /\ pc = "search"
    /\ gm' = <<LabelModelSearch(Ls[2], Ys[2], Ls[1])>>
    /\ pc' = "predict"
    /\ UNCHANGED <<lfVars, ctx, err, callVars, csv, reads, data, si, Y_lf,
                   Y_dev, Ls, Ys, Y_ps, loaders, weakly_supervised_model,
                   fully_supervised_model>>

\* Y_ps = [gm.predict_proba(Ls[0]), gm.predict_proba(Ls[1]), gm.predict_proba(Ls[2])]
PredictProba ==
    /\ pc = "predict"
    /\ Y_ps' = [k \in 1..Len(splits) |-> predict_proba(gm[1], Ls[k])]
    /\ pc' = "loaders"
    /\ UNCHANGED <<lfVars, ctx, err, callVars, csv, reads, data, si, Y_lf,
                   Y_dev, Ls, Ys, gm, loaders, weakly_supervised_model,
                   fully_supervised_model>>

\* The training loader given the ground-truth labels of the train split.
TrainLoaderGroundTruth == Ys[1]

\* The labels the weakly supervised training loader is built from.
TrainLoaderLabels == Y_ps[1]

\* loaders['train'], loaders['dev'], loaders['test']
MakeLoaders ==
    /\ pc = "loaders"
    /\ loaders' =
         [loaders EXCEPT
            !.train = <<get_data_loader(Column(data["train"], "xray_paths"),
                                        TrainLoaderLabels, TRUE)>>,
            !.dev = <<get_data_loader(Column(data["dev"], "xray_paths"),
                                      Ys[2], FALSE)>>,
            !.test = <<get_data_loader(Column(data["test"], "xray_paths"),
                                       Ys[3], FALSE)>>]
    /\ pc' = "train_ws"
    /\ UNCHANGED <<lfVars, ctx, err, callVars, csv, reads, data, si, Y_lf,
                   Y_dev, Ls, Ys, gm, Y_ps, weakly_supervised_model,
                   fully_supervised_model>>

\* weakly_supervised_model = searcher.search(search_space, loaders['dev'],
\*                                           train_args=[loaders['train']], ...)
TrainWeaklySupervised ==
    /\ pc = "train_ws"
    /\ weakly_supervised_model' =
         <<EndModelSearch(loaders.dev[1], loaders.train[1])>>
    /\ pc' = "train_fs"
    /\ UNCHANGED <<lfVars, ctx, err, callVars, csv, reads, data, si, Y_lf,
                   Y_dev, Ls, Ys, gm, Y_ps, loaders, fully_supervised_model>>

\* loaders['full_train'] is built from Ys[0] and the fully supervised model
\* is trained on it.
TrainFullySupervised ==
    /\ pc = "train_fs"
    /\ LET full == get_data_loader(Column(data["train"], "xray_paths"),
                                   Ys[1], TRUE)
       IN /\ loaders' = [loaders EXCEPT !.full_train = <<full>>]
          /\ fully_supervised_model' = <<EndModelSearch(loaders.dev[1], full)>>
    /\ pc' = "score"
    /\ UNCHANGED <<lfVars, ctx, err, callVars, csv, reads, data, si, Y_lf,
                   Y_dev, Ls, Ys, gm, Y_ps, weakly_supervised_model>>

\* The last cell prints the two models' scores on loaders['test'].
PrintScores ==
    /\ pc = "score"
    /\ pc' = "done"
    /\ UNCHANGED <<lfVars, ctx, err, callVars, nbVars>>

NextNotebook ==
    \/ Load
    \/ TestOnDev
    \/ DefineLFs
    \/ CallForSplit
    \/ \E t \in 1..Len(tasks) : StartTask(t)
    \/ \E t \in 1..Len(tasks) : TaskStep(t)
    \/ \E t \in 1..Len(tasks) : TaskReturn(t)
    \/ ComputeReturn
    \/ ComputeRaise
    \/ GroundTruth
    \/ SearchLabelModel
    \/ PredictProba
    \/ MakeLoaders
    \/ TrainWeaklySupervised
    \/ TrainFullySupervised
    \/ PrintScores

Spec == InitNotebook /\ [][NextNotebook]_vars

\* Testing single functions and stand-alone calls, side by side.
InitVotes == InitLF \/ InitCall

NextVotes == NextLF \/ NextCall

SpecVotes == InitVotes /\ [][NextVotes]_vars

\* ------------------------------------------------------------------ claims
Votes == {ABSTAIN, ABNORMAL, NORMAL}

\* evaluate_lf_on_docs(docs, lf) run on its own, from the first document to
\* the last.
evaluate_lf_on_docs(the_docs, lf) ==
    [i \in 1..Len(the_docs) |-> ApplyLF(lf, the_docs[i]).v]

\* C1: when create_label_matrix(lfs, docs) returns, with m = len(lfs) >= 1
\* and n = len(docs), the matrix has n rows and m columns and its entry in
\* row i, column j is the vote lfs[j](docs[i]).
C1_MatrixEntries ==
    (ctx = "call" /\ pc = "returned") =>
        /\ Len(lfs) >= 1
        /\ L[1].shape = <<Len(docs), Len(lfs)>>
        /\ \A i \in 1..Len(docs) : \A j \in 1..Len(lfs) :
              /\ ApplyLF(lfs[j], docs[i]).exc = "none"
              /\ Entry(L[1], i, j) = ApplyLF(lfs[j], docs[i]).v

\* A returned matrix of two different documents and two different functions.
C1_Witness ==
    /\ ctx = "call"
    /\ pc = "returned"
    /\ Len(docs) = 2
    /\ Len(lfs) = 2
    /\ docs[1] # docs[2]
    /\ lfs[1] # lfs[2]

\* C2: whatever the order in which the tasks were started, interleaved and
\* ended, the returned matrix is the one obtained from running
\* evaluate_lf_on_docs for lfs[0], lfs[1], ... one after another and stacking
\* the results in that order.
C2_SameAsSequential ==
    (ctx = "call" /\ pc = "returned") =>
        L[1] = LabelMatrix([j \in 1..Len(lfs) |->
                               evaluate_lf_on_docs(docs, lfs[j])])

\* A call that returned although its second task ended before its first and
\* the two tasks' results differ.
C2_Witness ==
    /\ ctx = "call"
    /\ pc = "returned"
    /\ Len(queue) = 2
    /\ queue = <<2, 1>>
    /\ tasks[1].lf_list # tasks[2].lf_list

\* C3: each of the three labeling functions gives, for every text report,
\* the empty one included, one of ABSTAIN = 0, ABNORMAL = 1, NORMAL = 2, and
\* so every entry of a label matrix built from them is 0, 1 or 2.
C3_VotesInRange ==
    /\ vote # NoVote => (vote.exc = "none" /\ vote.v \in Votes /\ Votes = {0, 1, 2})
    /\ (ctx = "call" /\ pc = "returned") =>
          \A i \in 1..Len(docs) : \A j \in 1..Len(lfs) :
              Entry(L[1], i, j) \in Votes

\* The empty report, voted on by a function that abstains on it.
C3_Witness ==
    /\ report = <<>>
    /\ lf_test = "LF_is_seen_or_noted_in_report_demo"
    /\ vote = Returned(ABSTAIN)

\* C9: LF_lung_hyperdistention_demo votes on every report: it returns
\* ABNORMAL or NORMAL and never ABSTAIN.
C9_HyperdistentionAlwaysVotes ==
    (lf_test = "LF_lung_hyperdistention_demo" /\ vote # NoVote) =>
        /\ vote.exc = "none"
        /\ vote.v \in {ABNORMAL, NORMAL}
        /\ vote.v # ABSTAIN

\* A report without any of the three patterns, on which it votes NORMAL.
C9_Witness ==
    /\ ctx = "lf"
    /\ lf_test = "LF_lung_hyperdistention_demo"
    /\ report = <<"i","n","f","l",".","a","t","e","d">>
    /\ vote = Returned(NORMAL)

\* C10: LF_report_is_short_demo returns NORMAL exactly for the reports of
\* fewer than 280 characters and ABSTAIN for the others: NORMAL at length
\* 279 and for the empty report, ABSTAIN at length 280, never ABNORMAL.
C10_ShortThreshold ==
    (lf_test = "LF_report_is_short_demo" /\ vote # NoVote) =>
        /\ vote.exc = "none"
        /\ vote.v # ABNORMAL
        /\ (vote.v = NORMAL) <=> (Len(report) <= 279)
        /\ (vote.v = ABSTAIN) <=> (Len(report) >= 280)
        /\ report = <<>> => vote.v = NORMAL

\* A report of exactly 280 characters, on which the function abstains.
C10_Witness ==
    /\ lf_test = "LF_report_is_short_demo"
    /\ Len(report) = 280
    /\ vote = Returned(ABSTAIN)

\* What the weakly supervised model is given when the ground-truth labels of
\* the train split are blanked out of the input: everything below is
\* computed from the files with every train label set to 0.
Blanked ==
    [csv EXCEPT !["train"] =
        [r \in 1..Len(csv["train"]) |-> [csv["train"][r] EXCEPT !.label = 0]]]

BlankedMatrix(s) ==
    LabelMatrix([j \in 1..Len(NotebookLFs) |->
        evaluate_lf_on_docs(Column(Blanked[s], "text"), NotebookLFs[j])])

BlankedLabels(s) == Column(Relabel(Blanked[s]), "label")

BlankedGM ==
    LabelModelSearch(BlankedMatrix("dev"), BlankedLabels("dev"),
                     BlankedMatrix("train"))

BlankedTrainLoader ==
    get_data_loader(Column(Blanked["train"], "xray_paths"),
                    predict_proba(BlankedGM, BlankedMatrix("train")), TRUE)

BlankedDevLoader ==
    get_data_loader(Column(Blanked["dev"], "xray_paths"),
                    BlankedLabels("dev"), FALSE)

\* C4: the weakly supervised model is trained against weak labels only:
\* loaders['train'] holds gm.predict_proba(Ls[0]), and it and the model
\* trained on it are the same in two runs that differ only in the train
\* split's ground-truth labels; those labels are in loaders['full_train'].
C4_TrainLabelsDoNotReachWeakModel ==
    /\ loaders.train # <<>> =>
          /\ loaders.train[1].labels = Y_ps[1]
          /\ Y_ps[1] = predict_proba(gm[1], Ls[1])
          /\ loaders.train[1] = BlankedTrainLoader
    /\ weakly_supervised_model # <<>> =>
          weakly_supervised_model[1] =
              EndModelSearch(BlankedDevLoader, BlankedTrainLoader)
    /\ loaders.full_train # <<>> =>
          /\ loaders.full_train[1].labels = Ys[1]
          /\ Ys[1] = Column(Relabel(csv["train"]), "label")

\* A finished run whose train split has a ground-truth label that the
\* blanking changes.
C4_Witness ==
    /\ pc = "done"
    /\ weakly_supervised_model # <<>>
    /\ \E r \in 1..Len(csv["train"]) : csv["train"][r].label = 1
    /\ Ys[1] # BlankedLabels("train")

\* C5: once a labeling function has raised on a document, the call ends with
\* that error and returns no matrix, no pair of a function and a document is
\* evaluated twice, and the loop over the splits stops: Ls has the matrices
\* of the earlier splits and gets none for this split or a later one.
C5_ErrorsPropagate ==
    /\ \A j \in 1..Len(calls) : \A i \in 1..Len(calls[j]) : calls[j][i] <= 1
    /\ (\E t \in 1..Len(tasks) : tasks[t].status = "failed") =>
          /\ pc \in {"compute", "error"}
          /\ L = <<>>
          /\ Len(Ls) = si - 1
          /\ gm = <<>>
    /\ err.at = "compute" =>
          /\ pc = "error"
          /\ tasks[err.task].status = "failed"
          /\ err.exc = ApplyLF(lfs[err.task], docs[err.doc]).exc
          /\ err.exc # "none"

\* The run ended by a function that raised on a text of the test split,
\* after the matrices of train and dev had been appended.
C5_Witness ==
    /\ pc = "error"
    /\ err.at = "compute"
    /\ si = 3
    /\ Len(Ls) = 2

\* C6: evaluating the labeling functions changes neither the docs list nor
\* the lfs list, and a task appends only to its own result list: a step that
\* changes a task's list is a step of that task, appends that task's vote on
\* its next document, and changes no other task.
C6_NoSharedMutableState ==
    [][/\ docs' = docs
       /\ lfs' = lfs
       /\ Len(tasks') = Len(tasks) =>
            \A t \in 1..Len(tasks) :
                tasks'[t].lf_list # tasks[t].lf_list =>
                    /\ tasks[t].status = "running"
                    /\ tasks'[t].i = tasks[t].i + 1
                    /\ tasks'[t].lf_list =
                         Append(tasks[t].lf_list,
                                ApplyLF(lfs[t], docs[tasks'[t].i]).v)
                    /\ \A u \in 1..Len(tasks) :
                          u # t => tasks'[u] = tasks[u]]_vars

\* Two tasks in flight at once, each with votes in its own list.
C6_Witness ==
    /\ ctx = "call"
    /\ Len(tasks) = 2
    /\ tasks[1].status = "running"
    /\ tasks[2].status = "running"
    /\ tasks[1].lf_list # <<>>
    /\ tasks[2].lf_list # <<>>
    /\ tasks[1].lf_list # tasks[2].lf_list

\* A split's table as the loading loop leaves it, given raw labels 0 and 1.
RowsRelabelled(s) ==
    /\ Len(data[s]) = Len(csv[s])
    /\ \A r \in 1..Len(csv[s]) :
          /\ data[s][r].label \in {ABNORMAL, NORMAL}
          /\ data[s][r].label # ABSTAIN
          /\ csv[s][r].label = 0 => data[s][r].label = 2
          /\ csv[s][r].label = 1 => data[s][r].label = 1
          /\ data[s][r].xray_paths = csv[s][r].xray_paths
          /\ data[s][r].text = csv[s][r].text

\* C7: after the loading loop every row of every split has the label 1 or 2:
\* a raw 0 became 2, a raw 1 stayed 1, the xray_paths and text columns are as
\* read, and no ground-truth label is the abstain value 0.
C7_LabelsRewritten ==
    /\ \A s \in SplitNames : reads[s] >= 1 => RowsRelabelled(s)
    /\ (pc # "load" /\ err.at # "load") =>
          \A s \in SplitNames : reads[s] >= 1 /\ RowsRelabelled(s)
    /\ Ys # <<>> =>
          \A k \in 1..Len(Ys) : \A r \in 1..Len(Ys[k]) : Ys[k][r] \in {1, 2}

\* The loading loop done, with a raw label 0 in the train split rewritten.
C7_Witness ==
    /\ pc = "lf_test"
    /\ csv["train"][1].label = 0
    /\ data["train"][1].label = 2
    /\ csv["dev"][1].label = 1
    /\ data["dev"][1].label = 1

\* C8: the run goes through its stages in order.  No file is read twice and
\* past the loading loop each was read once; a split's label matrix is
\* computed only when the split is loaded; the label model search comes after
\* the train and dev matrices; predict_proba after the search; the image
\* model's training after Y_ps[0]; the scores are printed last.
C8_SequentialPipeline ==
    /\ \A s \in SplitNames : reads[s] <= 1
    /\ (pc # "load" /\ err.at # "load") => \A s \in SplitNames : reads[s] = 1
    /\ \A k \in 1..Len(Ls) : reads[splits[k]] = 1
    /\ pc = "compute" => reads[splits[si]] = 1
    /\ gm # <<>> => (Len(Ls) >= 2 /\ Ys # <<>>)
    /\ Y_ps # <<>> => gm # <<>>
    /\ loaders.train # <<>> => Y_ps # <<>>
    /\ weakly_supervised_model # <<>> => (Y_ps # <<>> /\ loaders.train # <<>>)
    /\ fully_supervised_model # <<>> => weakly_supervised_model # <<>>
    /\ pc = "done" =>
          /\ Len(Ls) = Len(splits)
          /\ weakly_supervised_model # <<>>
          /\ fully_supervised_model # <<>>

\* A run that reached its end.
C8_Witness ==
    /\ pc = "done"
    /\ \A s \in SplitNames : reads[s] = 1
    /\ Len(Ls) = 3
    /\ fully_supervised_model # <<>>

\* A character of a report is a given lowercase letter (or other character)
\* up to the case of the letters A to Z.
SameIgnoringCase(c, p) == c = p \/ (IsUpperAscii(c) /\ AsciiLower(c) = p)

\* The report has the needle as a substring, letters compared without
\* regard to case.
ContainsIgnoringCase(hay, needle) ==
    \E i \in 0..(Len(hay) - Len(needle)) :
        \A k \in 1..Len(needle) : SameIgnoringCase(hay[i + k], needle[k])

\* C11: LF_is_seen_or_noted_in_report_demo returns ABNORMAL exactly when
\* the report contains "is seen" or "noted" as a substring in any mix of
\* upper and lower case, anywhere, also inside a longer word; otherwise it
\* returns ABSTAIN, and it never returns NORMAL.
C11_SeenOrNoted ==
    (lf_test = "LF_is_seen_or_noted_in_report_demo" /\ vote # NoVote) =>
        /\ vote.exc = "none"
        /\ vote.v \in {ABNORMAL, ABSTAIN}
        /\ vote.v # NORMAL
        /\ (vote.v = ABNORMAL) <=>
              (\/ ContainsIgnoringCase(report, is_seen)
               \/ ContainsIgnoringCase(report, noted))

\* "NoTeD" in mixed case inside a longer word, voted ABNORMAL.
C11_Witness ==
    /\ lf_test = "LF_is_seen_or_noted_in_report_demo"
    /\ report = <<"i","n","f","l","N","o","T","e","D","a","t","e","d">>
    /\ vote = Returned(ABNORMAL)

\* The report has none of the characters that re.IGNORECASE takes for s or
\* i although they are not the letters s, S, i, I.
PlainLetters(text) ==
    \A k \in 1..Len(text) : text[k] \notin {LongS, DotlessI, DottedCapI}

\* C12: in LF_lung_hyperdistention_demo the split on "." does not change
\* the vote: it is ABNORMAL exactly when the case-insensitive search finds
\* "increased volume", "hyperexpan" or "inflated" in the whole report, and
\* NORMAL otherwise, also for the empty report and a report of periods only.
\* For reports in plain letters that is: exactly when the report has one of
\* the three as a substring in any mix of upper and lower case.
C12_SplitKeepsVote ==
    (lf_test = "LF_lung_hyperdistention_demo" /\ vote # NoVote) =>
        /\ vote.exc = "none"
        /\ (vote.v = ABNORMAL) <=> SearchIgnoreCase(reg_01, report)
        /\ (vote.v = NORMAL) <=> ~SearchIgnoreCase(reg_01, report)
        /\ PlainLetters(report) =>
              ((vote.v = ABNORMAL) <=>
                  \E a \in 1..Len(reg_01) :
                      ContainsIgnoringCase(report, reg_01[a]))
        /\ (\A k \in 1..Len(report) : report[k] = ".") => vote.v = NORMAL

\* A report of three sentences, the last of them with "HYPEREXPAN", voted
\* ABNORMAL.
C12_Witness ==
    /\ lf_test = "LF_lung_hyperdistention_demo"
    /\ report = <<".", ".", "H","Y","P","E","R","E","X","P","A","N">>
    /\ Len(split(report, ".")) = 3
    /\ vote = Returned(ABNORMAL)

\* C13: the fan-in of create_label_matrix is a barrier: a matrix exists only
\* when every one of the m tasks has returned its list of n votes, so a
\* returned matrix has m columns of n votes each; while a task is pending or
\* running, nothing has been returned.
C13_FanInBarrier ==
    /\ L # <<>> =>
          /\ pc # "compute"
          /\ Len(tasks) = Len(lfs)
          /\ \A t \in 1..Len(tasks) :
                /\ tasks[t].status = "done"
                /\ Len(tasks[t].lf_list) = Len(docs)
          /\ Len(queue) = Len(lfs)
          /\ L[1].shape = <<Len(docs), Len(lfs)>>
          /\ \A j \in 1..Len(lfs) : \A i \in 1..Len(docs) :
                Entry(L[1], i, j) = tasks[j].lf_list[i]
    /\ (\E t \in 1..Len(tasks) : tasks[t].status \in {"pending", "running"}) =>
          (L = <<>> /\ pc # "returned")

\* A call of two functions over two documents that has returned, its first
\* task having ended before its second.
C13_Witness ==
    /\ ctx = "call"
    /\ pc = "returned"
    /\ L # <<>>
    /\ Len(docs) = 2
    /\ queue = <<1, 2>>

====
